---- MODULE Spec2Model ----
(***************************************************************************)
(* DuoVerse (src/app.py): a Flask + SQLAlchemy backend for scheduled       *)
(* meetings with join requests, chat, an image gallery and a shared        *)
(* YouTube "watch together" session.  The state is the five tables of the  *)
(* relational store, the wall clock, the health of the QR generators, the  *)
(* last HTTP response, and - for the interleaved specification - the       *)
(* requests that are between two database statements.                      *)
(*                                                                         *)
(* Abstractions: created_at / timestamp / updated_at columns are kept only *)
(* where a handler reads them (Message.timestamp, GalleryImage.created_at) *)
(* or where the unit of work writes them on every UPDATE                   *)
(* (YouTubeSession.updated_at); a uuid4 is a fresh token; file names carry *)
(* the room and the token but not the wall-clock stamp.                    *)
(***************************************************************************)
EXTENDS Integers, Sequences, FiniteSets, TLC

VARIABLES
    now,               \* datetime.now(), in minutes after 2025-01-01 18:59
    qr_env,            \* which QR generators work: "styled", "simple", "none"
    id_seq,            \* the AUTO_INCREMENT counter of each table
    meetings,          \* table Meeting
    join_requests,     \* table JoinRequest
    messages,          \* table Message
    gallery_images,    \* table GalleryImage
    files,             \* files under static/uploads
    youtube_sessions,  \* table YouTubeSession
    resp,              \* the last HTTP response
    txn,               \* per worker: the request between two statements
    client,            \* the chat page's polling cursor
    ops                \* requests served so far

vars == <<now, qr_env, id_seq, meetings, join_requests, messages,
          gallery_images, files, youtube_sessions, resp, txn, client, ops>>

(* ------------------------------ bounds -------------------------------- *)

\* rows ever inserted into the database, all tables together
MaxRows == 3
\* last minute of the wall clock
MaxTime == 1
\* requests served in the specifications that interleave every handler
\* (a change of the QR generators' health counts as one)
MaxOps == 4

(* --------------------------- program constants ------------------------- *)

HARDCODED_PASSWORD == "16092008"

\* YouTubeSession.volume default
DefaultVolume == 100

\* YouTubeSession.current_time default
DefaultCurrentTime == 0

(* ------------------------------ inputs -------------------------------- *)

Tables == {"meeting", "join_request", "message", "gallery_image", "youtube_session"}

Titles == {"Date Night"}
Dates == {"2025-01-01"}
Times == {"19:00", "7pm"}
Senders == {"User"}
Texts == {"hi"}
VideoIds == {"v1", "v2"}
SeekTimes == {0, 7}
Volumes == {100, 40}
Passwords == {"16092008", "letmein", "absent"}
Actions == {"accept", "reject", "cancel"}
Workers == {"w1", "w2"}
VideoTitles == {"Song"}
FileNames == {"a.png"}
None == "None"

\* str(uuid.uuid4()) of the n-th meeting: a fresh token
RoomToken(n) == "room-" \o ToString(n)

\* str(uuid.uuid4()) of the n-th join request
RequesterToken(n) == "user-" \o ToString(n)

\* the room tokens a client sends: those of the meetings, and one of none
RoomIds == {m.room_id : m \in meetings} \cup {RoomToken(0)}

\* the requester ids a client sends: those stored, one unknown, or none at all
RequesterIds == {r.requester : r \in join_requests} \cup {RequesterToken(0), None}

\* the primary keys a client sends: those of the table's rows, and one of none
RowIds(table) == {r.id : r \in table} \cup {0}

\* rows inserted so far, all tables together
TotalInserted == id_seq["meeting"] + id_seq["join_request"] + id_seq["message"]
                 + id_seq["gallery_image"] + id_seq["youtube_session"]

(* ------------------------------ helpers -------------------------------- *)

\* datetime.strptime(f"{date} {time}", "%Y-%m-%d %H:%M"): the minute, or a
\* ValueError for text that is not in that format
strptime(date, time) ==
    IF date = "2025-01-01" /\ time = "19:00"
    THEN [ok |-> TRUE, minute |-> 1]
    ELSE IF date = "2025-01-01" /\ time = "18:59"
    THEN [ok |-> TRUE, minute |-> 0]
    ELSE [ok |-> FALSE, minute |-> 0]

is_meeting_started_early(meeting) ==
    LET p == strptime(meeting.date, meeting.time)
    IN  IF p.ok THEN now + 1 >= p.minute ELSE FALSE

is_meeting_started_unparsed(meeting) ==
    LET p == strptime(meeting.date, meeting.time)
    IN  IF p.ok THEN now >= p.minute ELSE TRUE

is_meeting_started(meeting) ==
    LET p == strptime(meeting.date, meeting.time)
    IN  IF p.ok THEN now >= p.minute ELSE FALSE

\* Meeting.query.filter_by(room_id=room_id): room_id is unique
MeetingsByRoom(room_id) == {m \in meetings : m.room_id = room_id}

MeetingOf(room_id) == CHOOSE m \in meetings : m.room_id = room_id

\* url_for('static', filename=path)
url_for_static(path) == "/static/" \o path

\* the JSON body of a response
Json(code, body) == [code |-> code, body |-> body]

Error(code, text) == Json(code, [error |-> text])

Success == Json(200, [success |-> TRUE])

\* a JSON array as the body
JsonList(list) == Json(200, [items |-> list])

NoResponse == Json(0, [none |-> TRUE])

Idle == [op |-> "idle"]

\* largest element of a non-empty set of integers
Max(S) == CHOOSE x \in S : \A y \in S : y <= x

dbvars == <<id_seq, meetings, join_requests, messages, gallery_images, files,
            youtube_sessions>>

envvars == <<now, qr_env>>

concvars == <<txn, client>>

(* ------------------------------- Init ---------------------------------- *)

Init ==
    /\ now = 0
    /\ qr_env = "styled"
    /\ id_seq = [t \in Tables |-> 0]
    /\ meetings = {}
    /\ join_requests = {}
    /\ messages = {}
    /\ gallery_images = {}
    /\ files = {}
    /\ youtube_sessions = {}
    /\ resp = NoResponse
    /\ txn = [w \in Workers |-> Idle]
    /\ client = [since |-> 0, received |-> <<>>]
    /\ ops = 0

(* ---------------------------- environment ------------------------------ *)

\* the wall clock advances
Tick ==
    /\ now < MaxTime
    /\ now' = now + 1
    /\ UNCHANGED <<qr_env, dbvars, resp, concvars, ops>>

\* the styled generator, or both generators, start or stop failing
QrEnvChange ==
    /\ \E e \in {"styled", "simple", "none"} : e # qr_env /\ qr_env' = e
    /\ UNCHANGED <<now, dbvars, resp, concvars>>

(* ------------------------------ meetings ------------------------------- *)

generate_simple_qr(room_id) ==
    IF qr_env = "none"
    THEN [success |-> FALSE, path |-> None]
    ELSE [success |-> TRUE, path |-> "qrcodes/qr_simple_" \o room_id \o ".png"]

generate_meeting_qr_alone(room_id) ==
    IF qr_env = "styled"
    THEN [success |-> TRUE, path |-> "qrcodes/qr_" \o room_id \o ".png"]
    ELSE [success |-> FALSE, path |-> None]

generate_meeting_qr(room_id) ==
    IF qr_env = "styled"
    THEN [success |-> TRUE, path |-> "qrcodes/qr_" \o room_id \o ".png"]
    ELSE generate_simple_qr(room_id)

create_meeting(title, date, time) ==
    /\ TotalInserted < MaxRows
    /\ LET id == id_seq["meeting"] + 1
           room_id == RoomToken(id)
           qr_data == generate_meeting_qr(room_id)
           meeting == [id |-> id, room_id |-> room_id, title |-> title,
                       description |-> "", date |-> date, time |-> time,
                       gallery_password |-> HARDCODED_PASSWORD,
                       is_active |-> TRUE,
                       qr_code_path |-> IF qr_data.success THEN qr_data.path
                                        ELSE None]
       IN  /\ id_seq' = [id_seq EXCEPT !["meeting"] = id]
           /\ meetings' = meetings \cup {meeting}
           /\ resp' = Json(200, [room_id |-> room_id,
                                 qr_generated |-> qr_data.success,
                                 qr_path |-> IF qr_data.success
                                             THEN url_for_static(qr_data.path)
                                             ELSE None])
    /\ UNCHANGED <<envvars, join_requests, messages, gallery_images, files,
                   youtube_sessions, concvars>>

api_generate_qr(room_id) ==
    /\ IF MeetingsByRoom(room_id) = {}
       THEN /\ resp' = Error(404, "Meeting not found")
            /\ UNCHANGED meetings
       ELSE LET meeting == MeetingOf(room_id)
                qr_data == generate_meeting_qr(meeting.room_id)
            IN  IF qr_data.success
                THEN /\ meetings' = (meetings \ {meeting}) \cup
                            {[meeting EXCEPT !.qr_code_path = qr_data.path]}
                     /\ resp' = Json(200, [success |-> TRUE,
                                           qr_path |-> url_for_static(qr_data.path)])
                ELSE /\ resp' = Json(500, [success |-> FALSE,
                                           error |-> "QR generation failed"])
                     /\ UNCHANGED meetings
    /\ UNCHANGED <<envvars, id_seq, join_requests, messages, gallery_images,
                   files, youtube_sessions, concvars>>

\* file_loaded: whether the stored QR image could be read from disk
meeting_links(room_id, file_loaded) ==
    /\ IF MeetingsByRoom(room_id) = {}
       THEN /\ resp' = Json(404, [page |-> "offline.html"])
            /\ UNCHANGED meetings
       ELSE LET meeting == MeetingOf(room_id)
                qr_data == generate_meeting_qr(meeting.room_id)
                generated == ~(meeting.qr_code_path # None /\ file_loaded)
                             /\ qr_data.success
                after == IF generated
                         THEN [meeting EXCEPT !.qr_code_path = qr_data.path]
                         ELSE meeting
            IN  /\ meetings' = (meetings \ {meeting}) \cup {after}
                /\ resp' = Json(200, [page |-> "link.html",
                                      room_id |-> room_id,
                                      has_qr |-> after.qr_code_path # None])
    /\ UNCHANGED <<envvars, id_seq, join_requests, messages, gallery_images,
                   files, youtube_sessions, concvars>>

end_meeting_deleting(room_id) ==
    /\ meetings' = meetings \ MeetingsByRoom(room_id)
    /\ resp' = Success
    /\ UNCHANGED <<envvars, id_seq, join_requests, messages, gallery_images,
                   files, youtube_sessions, concvars>>

end_meeting(room_id) ==
    /\ IF MeetingsByRoom(room_id) # {}
       THEN LET meeting == MeetingOf(room_id)
            IN  meetings' = (meetings \ {meeting}) \cup
                                {[meeting EXCEPT !.is_active = FALSE]}
       ELSE UNCHANGED meetings
    /\ resp' = Success
    /\ UNCHANGED <<envvars, id_seq, join_requests, messages, gallery_images,
                   files, youtube_sessions, concvars>>

check_meeting_active(room_id) ==
    /\ resp' = IF MeetingsByRoom(room_id) = {}
               THEN Error(404, "Meeting not found")
               ELSE Json(200, [is_active |-> MeetingOf(room_id).is_active])
    /\ UNCHANGED <<envvars, dbvars, concvars>>

(* ---------------------------- join requests ---------------------------- *)

\* JoinRequest.query.get(request_id)
JoinRequestsById(request_id) == {r \in join_requests : r.id = request_id}

\* JoinRequest.query.filter_by(meeting_id=..., requester=...)
JoinRequestsOf(meeting_id, requester) ==
    {r \in join_requests : r.meeting_id = meeting_id /\ r.requester = requester}

\* the row with one column assigned
WithStatus(r, status) == [r EXCEPT !.status = status]

new_join_request_accepted(id, meeting_id, requester) ==
    [id |-> id, meeting_id |-> meeting_id, requester |-> requester,
     status |-> "accepted"]

\* JoinRequest(meeting_id=..., requester=..., status='pending')
new_join_request(id, meeting_id, requester) ==
    [id |-> id, meeting_id |-> meeting_id, requester |-> requester,
     status |-> "pending"]

create_join_request_after_end(room_id) ==
    /\ IF MeetingsByRoom(room_id) = {}
       THEN /\ resp' = Error(404, "Meeting not found")
            /\ UNCHANGED <<id_seq, join_requests>>
       ELSE LET meeting == MeetingOf(room_id)
            IN  IF ~is_meeting_started(meeting)
                THEN /\ resp' = Error(400, "Meeting has not started yet")
                     /\ UNCHANGED <<id_seq, join_requests>>
                ELSE LET id == id_seq["join_request"] + 1
                         requester_id == RequesterToken(id)
                     IN  /\ TotalInserted < MaxRows
                         /\ id_seq' = [id_seq EXCEPT !["join_request"] = id]
                         /\ join_requests' = join_requests \cup
                                {new_join_request(id, meeting.id, requester_id)}
                         /\ resp' = Json(201, [success |-> TRUE,
                                               request_id |-> id,
                                               requester_id |-> requester_id])
    /\ UNCHANGED <<envvars, meetings, messages, gallery_images, files,
                   youtube_sessions, concvars>>

create_join_request(room_id) ==
    /\ IF MeetingsByRoom(room_id) = {}
       THEN /\ resp' = Error(404, "Meeting not found")
            /\ UNCHANGED <<id_seq, join_requests>>
       ELSE LET meeting == MeetingOf(room_id)
            IN  IF ~meeting.is_active
                THEN /\ resp' = Error(400, "Meeting is not active")
                     /\ UNCHANGED <<id_seq, join_requests>>
                ELSE IF ~is_meeting_started(meeting)
                THEN /\ resp' = Error(400, "Meeting has not started yet")
                     /\ UNCHANGED <<id_seq, join_requests>>
                ELSE LET id == id_seq["join_request"] + 1
                         requester_id == RequesterToken(id)
                     IN  /\ TotalInserted < MaxRows
                         /\ id_seq' = [id_seq EXCEPT !["join_request"] = id]
                         /\ join_requests' = join_requests \cup
                                {new_join_request(id, meeting.id, requester_id)}
                         /\ resp' = Json(201, [success |-> TRUE,
                                               request_id |-> id,
                                               requester_id |-> requester_id])
    /\ UNCHANGED <<envvars, meetings, messages, gallery_images, files,
                   youtube_sessions, concvars>>

\* the status an action assigns
status_of_action_verbatim(action) == action

status_of_action_swapped(action) ==
    IF action = "accept" THEN "rejected" ELSE "accepted"

status_of_action(action) ==
    IF action = "accept" THEN "accepted" ELSE "rejected"

handle_join_request_pending_only(request_id, action) ==
    /\ IF JoinRequestsById(request_id) = {}
       THEN /\ resp' = Error(404, "Request not found")
            /\ UNCHANGED join_requests
       ELSE LET join_request == CHOOSE r \in join_requests : r.id = request_id
            IN  IF action \in {"accept", "reject"} /\ join_request.status = "pending"
                THEN /\ join_requests' = (join_requests \ {join_request}) \cup
                            {WithStatus(join_request, status_of_action(action))}
                     /\ resp' = Success
                ELSE /\ resp' = Error(400, "Invalid action")
                     /\ UNCHANGED join_requests
    /\ UNCHANGED <<envvars, id_seq, meetings, messages, gallery_images, files,
                   youtube_sessions, concvars>>

handle_join_request(request_id, action) ==
    /\ IF JoinRequestsById(request_id) = {}
       THEN /\ resp' = Error(404, "Request not found")
            /\ UNCHANGED join_requests
       ELSE LET join_request == CHOOSE r \in join_requests : r.id = request_id
            IN  IF action \in {"accept", "reject"}
                THEN /\ join_requests' = (join_requests \ {join_request}) \cup
                            {WithStatus(join_request, status_of_action(action))}
                     /\ resp' = Success
                ELSE /\ resp' = Error(400, "Invalid action")
                     /\ UNCHANGED join_requests
    /\ UNCHANGED <<envvars, id_seq, meetings, messages, gallery_images, files,
                   youtube_sessions, concvars>>

\* the body of get_join_request_status
join_request_status(room_id, requester_id) ==
    IF MeetingsByRoom(room_id) = {}
    THEN Error(404, "Meeting not found")
    ELSE IF requester_id = None
    THEN Json(200, [status |-> "none"])
    ELSE LET found == JoinRequestsOf(MeetingOf(room_id).id, requester_id)
         IN  IF found # {}
             THEN LET join_request == CHOOSE r \in found : TRUE
                  IN  Json(200, [status |-> join_request.status,
                                 request_id |-> join_request.id])
             ELSE Json(200, [status |-> "none"])

get_join_request_status(room_id, requester_id) ==
    /\ resp' = join_request_status(room_id, requester_id)
    /\ UNCHANGED <<envvars, dbvars, concvars>>

check_join_status(room_id, requester_id) ==
    /\ resp' = IF MeetingsByRoom(room_id) = {}
               THEN Error(404, "Meeting not found")
               ELSE IF requester_id = None
               THEN Json(200, [accepted |-> FALSE])
               ELSE Json(200, [accepted |->
                        \E r \in JoinRequestsOf(MeetingOf(room_id).id, requester_id) :
                            r.status = "accepted"])
    /\ UNCHANGED <<envvars, dbvars, concvars>>

\* the rows a bulk clear deletes
RejectedOf(meeting_id) ==
    {r \in join_requests : r.meeting_id = meeting_id /\ r.status = "rejected"}

clear_rejected_requests(room_id) ==
    /\ IF MeetingsByRoom(room_id) = {}
       THEN /\ resp' = Error(404, "Meeting not found")
            /\ UNCHANGED join_requests
       ELSE /\ join_requests' = join_requests \ RejectedOf(MeetingOf(room_id).id)
            /\ resp' = Success
    /\ UNCHANGED <<envvars, id_seq, meetings, messages, gallery_images, files,
                   youtube_sessions, concvars>>

\* the rows an individual clear may delete (it deletes the first)
ClearableAnyStatus(meeting_id, requester_id) ==
    JoinRequestsOf(meeting_id, requester_id)

Clearable(meeting_id, requester_id) ==
    {r \in JoinRequestsOf(meeting_id, requester_id) : r.status = "rejected"}

clear_rejected_request(room_id, requester_id) ==
    /\ IF MeetingsByRoom(room_id) = {}
       THEN /\ resp' = Error(404, "Meeting not found")
            /\ UNCHANGED join_requests
       ELSE IF requester_id = None
       THEN /\ resp' = Error(400, "Requester ID required")
            /\ UNCHANGED join_requests
       ELSE LET found == Clearable(MeetingOf(room_id).id, requester_id)
            IN  /\ IF found # {}
                   THEN join_requests' = join_requests \ {CHOOSE r \in found : TRUE}
                   ELSE UNCHANGED join_requests
                /\ resp' = Success
    /\ UNCHANGED <<envvars, id_seq, meetings, messages, gallery_images, files,
                   youtube_sessions, concvars>>

\* request_ids of a batch call: lists with unknown, foreign and repeated ids
\* (the order of a list changes neither its length nor what IN matches)
IdLists == {<<>>} \cup {<<a>> : a \in RowIds(join_requests)} \cup
           {p \in RowIds(join_requests) \X RowIds(join_requests) : p[1] <= p[2]}

Range(list) == {list[i] : i \in 1..Len(list)}

BatchMatchesAnyMeeting(meeting_id, request_ids) ==
    {r \in join_requests : r.id \in Range(request_ids)}

\* the rows a batch UPDATE matches
BatchMatches(meeting_id, request_ids) ==
    {r \in join_requests : r.id \in Range(request_ids) /\ r.meeting_id = meeting_id}

batch_update(room_id, request_ids, status, count_key) ==
    /\ IF MeetingsByRoom(room_id) = {}
       THEN /\ resp' = Error(404, "Meeting not found")
            /\ UNCHANGED join_requests
       ELSE IF request_ids = <<>>
       THEN /\ resp' = Error(400, "No request IDs provided")
            /\ UNCHANGED join_requests
       ELSE LET hit == BatchMatches(MeetingOf(room_id).id, request_ids)
            IN  /\ join_requests' = (join_requests \ hit) \cup
                                    {WithStatus(r, status) : r \in hit}
                /\ resp' = Json(200, [success |-> TRUE, key |-> count_key,
                                      count |-> Len(request_ids)])
    /\ UNCHANGED <<envvars, id_seq, meetings, messages, gallery_images, files,
                   youtube_sessions, concvars>>

batch_accept_requests(room_id, request_ids) ==
    batch_update(room_id, request_ids, "accepted", "accepted_count")

batch_reject_requests(room_id, request_ids) ==
    batch_update(room_id, request_ids, "rejected", "rejected_count")

(* ------------------------------ messages ------------------------------- *)

new_message_elsewhere(id, meeting_id, sender, text, is_image) ==
    [id |-> id, meeting_id |-> meeting_id + 1, sender |-> sender,
     message |-> text, is_image |-> is_image, timestamp |-> now]

\* Message(meeting_id=..., sender=..., message=..., is_image=...)
new_message(id, meeting_id, sender, text, is_image) ==
    [id |-> id, meeting_id |-> meeting_id, sender |-> sender, message |-> text,
     is_image |-> is_image, timestamp |-> now]

\* db.session.add(message); db.session.commit()
messages_replaced_by(row) ==
    {m \in messages : m.meeting_id # row.meeting_id} \cup {row}

messages_with(row) == messages \cup {row}

\* filter(Message.meeting_id == meeting.id, Message.id > since)
messages_since_inclusive(meeting_id, since) ==
    {m \in messages : m.meeting_id = meeting_id /\ m.id >= since}

messages_since(meeting_id, since) ==
    {m \in messages : m.meeting_id = meeting_id /\ m.id > since}

\* the rows of S in ascending (key, id) order
RECURSIVE OrderAsc(_, _)
OrderAsc(S, key) ==
    IF S = {}
    THEN <<>>
    ELSE LET first == CHOOSE a \in S : \A b \in S :
                 \/ a[key] < b[key]
                 \/ a[key] = b[key] /\ a.id <= b.id
         IN  <<first>> \o OrderAsc(S \ {first}, key)

Reverse(list) == [i \in 1..Len(list) |-> list[Len(list) + 1 - i]]

\* one element of the get_messages body
MessageJson(m) ==
    [id |-> m.id, sender |-> m.sender, message |-> m.message,
     is_image |-> m.is_image, timestamp |-> m.timestamp]

\* the body of get_messages: order_by(Message.timestamp.asc())
get_messages_result(room_id, since) ==
    IF MeetingsByRoom(room_id) = {}
    THEN Error(404, "Meeting not found")
    ELSE LET rows == OrderAsc(messages_since(MeetingOf(room_id).id, since),
                              "timestamp")
         IN  JsonList([i \in 1..Len(rows) |-> MessageJson(rows[i])])

get_messages(room_id, since) ==
    /\ resp' = get_messages_result(room_id, since)
    /\ UNCHANGED <<envvars, dbvars, concvars>>

send_message(room_id, sender, text, is_image) ==
    /\ IF MeetingsByRoom(room_id) = {}
       THEN /\ resp' = Error(404, "Meeting not found")
            /\ UNCHANGED <<id_seq, messages>>
       ELSE LET id == id_seq["message"] + 1
            IN  /\ TotalInserted < MaxRows
                /\ id_seq' = [id_seq EXCEPT !["message"] = id]
                /\ messages' = messages_with(
                       new_message(id, MeetingOf(room_id).id, sender, text, is_image))
                /\ resp' = Json(200, [success |-> TRUE, message_id |-> id])
    /\ UNCHANGED <<envvars, meetings, join_requests, gallery_images, files,
                   youtube_sessions, concvars>>

(* ------------------------------- gallery ------------------------------- *)

\* f"uploads/{room_id}/{filename}" with filename = f"{uuid4}_{file.filename}"
UploadPath(room_id, id, filename) ==
    "uploads/" \o room_id \o "/u" \o ToString(id) \o "_" \o filename

upload_image(room_id, filename) ==
    /\ IF MeetingsByRoom(room_id) = {}
       THEN /\ resp' = Error(404, "Meeting not found")
            /\ UNCHANGED <<id_seq, gallery_images, files>>
       ELSE IF filename = None
       THEN /\ resp' = Error(400, "No image provided")
            /\ UNCHANGED <<id_seq, gallery_images, files>>
       ELSE IF filename = ""
       THEN /\ resp' = Error(400, "No image selected")
            /\ UNCHANGED <<id_seq, gallery_images, files>>
       ELSE LET id == id_seq["gallery_image"] + 1
                path == UploadPath(room_id, id, filename)
            IN  /\ TotalInserted < MaxRows
                /\ id_seq' = [id_seq EXCEPT !["gallery_image"] = id]
                /\ files' = files \cup {path}
                /\ gallery_images' = gallery_images \cup
                       {[id |-> id, meeting_id |-> MeetingOf(room_id).id,
                         image_path |-> path, created_at |-> now]}
                /\ resp' = Json(200, [success |-> TRUE, image_id |-> id,
                                      image_path |-> url_for_static(path)])
    /\ UNCHANGED <<envvars, meetings, join_requests, messages,
                   youtube_sessions, concvars>>

get_gallery_images_result_unchecked(room_id, password) ==
    IF MeetingsByRoom(room_id) = {}
    THEN Error(404, "Meeting not found")
    ELSE LET rows == Reverse(OrderAsc(
                 {g \in gallery_images : g.meeting_id = MeetingOf(room_id).id},
                 "created_at"))
         IN  JsonList([i \in 1..Len(rows) |->
                 [id |-> rows[i].id, path |-> url_for_static(rows[i].image_path),
                  created_at |-> rows[i].created_at]])

\* the body of get_gallery_images: order_by(GalleryImage.created_at.desc())
get_gallery_images_result(room_id, password) ==
    IF MeetingsByRoom(room_id) = {}
    THEN Error(404, "Meeting not found")
    ELSE IF password # HARDCODED_PASSWORD
    THEN Error(401, "Invalid password")
    ELSE LET rows == Reverse(OrderAsc(
                 {g \in gallery_images : g.meeting_id = MeetingOf(room_id).id},
                 "created_at"))
         IN  JsonList([i \in 1..Len(rows) |->
                 [id |-> rows[i].id, path |-> url_for_static(rows[i].image_path),
                  created_at |-> rows[i].created_at]])

get_gallery_images(room_id, password) ==
    /\ resp' = get_gallery_images_result(room_id, password)
    /\ UNCHANGED <<envvars, dbvars, concvars>>

delete_image_of_meeting(image_id, remove_ok) ==
    /\ IF {g \in gallery_images : g.id = image_id} = {}
       THEN /\ resp' = Error(404, "Image not found")
            /\ UNCHANGED <<gallery_images, files>>
       ELSE LET image == CHOOSE g \in gallery_images : g.id = image_id
            IN  /\ files' = IF image.image_path \in files /\ remove_ok
                            THEN files \ {image.image_path}
                            ELSE files
                /\ gallery_images' =
                       {g \in gallery_images : g.meeting_id # image.meeting_id}
                /\ resp' = Success
    /\ UNCHANGED <<envvars, id_seq, meetings, join_requests, messages,
                   youtube_sessions, concvars>>

\* remove_ok: whether os.remove succeeds when the file exists
delete_image(image_id, remove_ok) ==
    /\ IF {g \in gallery_images : g.id = image_id} = {}
       THEN /\ resp' = Error(404, "Image not found")
            /\ UNCHANGED <<gallery_images, files>>
       ELSE LET image == CHOOSE g \in gallery_images : g.id = image_id
            IN  /\ files' = IF image.image_path \in files /\ remove_ok
                            THEN files \ {image.image_path}
                            ELSE files
                /\ gallery_images' = gallery_images \ {image}
                /\ resp' = Success
    /\ UNCHANGED <<envvars, id_seq, meetings, join_requests, messages,
                   youtube_sessions, concvars>>

(* --------------------------- watch together ---------------------------- *)

\* json.dumps / json.loads of the playlist column (a Text column)
json_dumps(list) == [json |-> list]

json_loads(text) == text.json

\* "no row": what .first() returns for an empty result
NoRow == [id |-> 0]

\* YouTubeSession(meeting_id=meeting.id) with the column defaults
new_youtube_session(id, meeting_id) ==
    [id |-> id, meeting_id |-> meeting_id, video_id |-> None,
     video_title |-> None, is_playing |-> FALSE,
     current_time |-> DefaultCurrentTime, volume |-> DefaultVolume,
     playlist |-> json_dumps(<<>>), updated_at |-> now]

SessionsOf(meeting_id) == {s \in youtube_sessions : s.meeting_id = meeting_id}

\* YouTubeSession.query.filter_by(meeting_id=...).first(): no ORDER BY, so any
\* matching row may come first
FirstSession(meeting_id) ==
    IF SessionsOf(meeting_id) = {} THEN {NoRow} ELSE SessionsOf(meeting_id)

\* the UPDATE the unit of work emits at commit: the columns whose assigned
\* value differs from the loaded one, on the row with the loaded id, and
\* with them updated_at (onupdate=datetime.utcnow); no UPDATE when no column
\* differs
ApplyUpdate(loaded, assigned) ==
    LET changed == {c \in DOMAIN assigned : assigned[c] # loaded[c]}
    IN  {IF s.id = loaded.id /\ changed # {}
         THEN [c \in DOMAIN s |->
                  IF c \in changed THEN assigned[c]
                  ELSE IF c = "updated_at" THEN now ELSE s[c]]
         ELSE s : s \in youtube_sessions}

\* the INSERT of a new session with some columns assigned
InsertSession(meeting_id, assigned) ==
    LET id == id_seq["youtube_session"] + 1
        fresh == new_youtube_session(id, meeting_id)
    IN  /\ TotalInserted < MaxRows
        /\ id_seq' = [id_seq EXCEPT !["youtube_session"] = id]
        /\ youtube_sessions' = youtube_sessions \cup
               {[c \in DOMAIN fresh |->
                    IF c \in DOMAIN assigned THEN assigned[c] ELSE fresh[c]]}

SessionJson(s) ==
    Json(200, [video_id |-> s.video_id, video_title |-> s.video_title,
               is_playing |-> s.is_playing, current_time |-> s.current_time,
               volume |-> s.volume, playlist |-> json_loads(s.playlist)])

\* get_youtube_session after its SELECT returned `loaded`
get_youtube_session_write(loaded, meeting_id) ==
    IF loaded = NoRow
    THEN /\ InsertSession(meeting_id, [meeting_id |-> meeting_id])
         /\ resp' = SessionJson(new_youtube_session(0, meeting_id))
    ELSE /\ resp' = SessionJson(loaded)
         /\ UNCHANGED <<id_seq, youtube_sessions>>

get_youtube_session(room_id) ==
    /\ IF MeetingsByRoom(room_id) = {}
       THEN /\ resp' = Error(404, "Meeting not found")
            /\ UNCHANGED <<id_seq, youtube_sessions>>
       ELSE \E loaded \in FirstSession(MeetingOf(room_id).id) :
                get_youtube_session_write(loaded, MeetingOf(room_id).id)
    /\ UNCHANGED <<envvars, meetings, join_requests, messages, gallery_images,
                   files, concvars>>

\* the columns youtube_load_video assigns
load_video_columns_keep_position(video_id, video_title) ==
    [video_id |-> video_id, video_title |-> video_title]

load_video_columns_reset_volume(video_id, video_title) ==
    [video_id |-> video_id, video_title |-> video_title,
     is_playing |-> FALSE, current_time |-> 0, volume |-> DefaultVolume]

load_video_columns(video_id, video_title) ==
    [video_id |-> video_id, video_title |-> video_title,
     is_playing |-> FALSE, current_time |-> 0]

\* youtube_load_video after its SELECT returned `loaded`
youtube_load_video_write(loaded, meeting_id, video_id, video_title) ==
    /\ IF loaded = NoRow
       THEN InsertSession(meeting_id, load_video_columns(video_id, video_title))
       ELSE /\ youtube_sessions' =
                   ApplyUpdate(loaded, load_video_columns(video_id, video_title))
            /\ UNCHANGED id_seq
    /\ resp' = Success

youtube_load_video(room_id, video_id, video_title) ==
    /\ IF MeetingsByRoom(room_id) = {}
       THEN /\ resp' = Error(404, "Meeting not found")
            /\ UNCHANGED <<id_seq, youtube_sessions>>
       ELSE \E loaded \in FirstSession(MeetingOf(room_id).id) :
                youtube_load_video_write(loaded, MeetingOf(room_id).id,
                                         video_id, video_title)
    /\ UNCHANGED <<envvars, meetings, join_requests, messages, gallery_images,
                   files, concvars>>

\* [v for v in playlist if v['id'] != video_id]
WithoutVideo(playlist, video_id) ==
    SelectSeq(playlist, LAMBDA v : v.id # video_id)

\* the columns play, seek, volume and remove assign to the loaded session
AssignedColumns(loaded, op, args) ==
    CASE op = "play" -> [is_playing |-> args.is_playing,
                         current_time |-> args.current_time]
      [] op = "seek" -> [current_time |-> args.current_time]
      [] op = "volume" -> [volume |-> args.volume]
      [] op = "remove" ->
            [playlist |-> json_dumps(WithoutVideo(json_loads(loaded.playlist),
                                                  args.video_id))]

youtube_assign_creating(room_id, op, args) ==
    /\ IF MeetingsByRoom(room_id) = {}
       THEN /\ resp' = Error(404, "Meeting not found")
            /\ UNCHANGED <<id_seq, youtube_sessions>>
       ELSE /\ \E loaded \in FirstSession(MeetingOf(room_id).id) :
                   IF loaded # NoRow
                   THEN /\ youtube_sessions' =
                               ApplyUpdate(loaded, AssignedColumns(loaded, op, args))
                        /\ UNCHANGED id_seq
                   ELSE InsertSession(MeetingOf(room_id).id,
                            AssignedColumns(new_youtube_session(0, 0), op, args))
            /\ resp' = Success
    /\ UNCHANGED <<envvars, meetings, join_requests, messages,
                   gallery_images, files, concvars>>

\* play, seek, volume and remove: `if session:` then assign and commit
youtube_assign(room_id, op, args) ==
    /\ IF MeetingsByRoom(room_id) = {}
       THEN /\ resp' = Error(404, "Meeting not found")
            /\ UNCHANGED youtube_sessions
       ELSE /\ \E loaded \in FirstSession(MeetingOf(room_id).id) :
                   IF loaded # NoRow
                   THEN youtube_sessions' =
                            ApplyUpdate(loaded, AssignedColumns(loaded, op, args))
                   ELSE UNCHANGED youtube_sessions
            /\ resp' = Success
    /\ UNCHANGED <<envvars, id_seq, meetings, join_requests, messages,
                   gallery_images, files, concvars>>

youtube_play(room_id, is_playing, current_time) ==
    youtube_assign(room_id, "play",
                   [is_playing |-> is_playing, current_time |-> current_time])

youtube_seek(room_id, current_time) ==
    youtube_assign(room_id, "seek", [current_time |-> current_time])

youtube_volume(room_id, volume) ==
    youtube_assign(room_id, "volume", [volume |-> volume])

youtube_remove_from_playlist(room_id, video_id) ==
    youtube_assign(room_id, "remove", [video_id |-> video_id])

\* any(v['id'] == video_id for v in playlist)
InPlaylist(playlist, video_id) ==
    \E i \in 1..Len(playlist) : playlist[i].id = video_id

PlaylistEntry(video_id, video_title) ==
    [id |-> video_id, title |-> video_title]

youtube_add_to_playlist_write_always(loaded, meeting_id, video_id, video_title) ==
    LET playlist == IF loaded = NoRow THEN <<>> ELSE json_loads(loaded.playlist)
        longer == Append(playlist, PlaylistEntry(video_id, video_title))
    IN  /\ IF loaded = NoRow
           THEN InsertSession(meeting_id, [playlist |-> json_dumps(longer)])
           ELSE /\ youtube_sessions' =
                       ApplyUpdate(loaded, [playlist |-> json_dumps(longer)])
                /\ UNCHANGED id_seq
        /\ resp' = Json(200, [success |-> TRUE, playlist |-> longer])

youtube_add_to_playlist_write_locked(loaded, meeting_id, video_id, video_title) ==
    LET current == IF loaded = NoRow THEN NoRow
                   ELSE CHOOSE s \in youtube_sessions : s.id = loaded.id
        playlist == IF current = NoRow THEN <<>> ELSE json_loads(current.playlist)
        longer == Append(playlist, PlaylistEntry(video_id, video_title))
    IN  IF ~InPlaylist(playlist, video_id)
        THEN /\ IF current = NoRow
                THEN InsertSession(meeting_id, [playlist |-> json_dumps(longer)])
                ELSE /\ youtube_sessions' =
                            ApplyUpdate(current, [playlist |-> json_dumps(longer)])
                     /\ UNCHANGED id_seq
             /\ resp' = Json(200, [success |-> TRUE, playlist |-> longer])
        ELSE /\ resp' = Json(200, [success |-> TRUE, playlist |-> playlist])
             /\ UNCHANGED <<id_seq, youtube_sessions>>

\* youtube_add_to_playlist after its SELECT returned `loaded`
youtube_add_to_playlist_write(loaded, meeting_id, video_id, video_title) ==
    LET playlist == IF loaded = NoRow THEN <<>> ELSE json_loads(loaded.playlist)
        longer == Append(playlist, PlaylistEntry(video_id, video_title))
    IN  IF ~InPlaylist(playlist, video_id)
        THEN /\ IF loaded = NoRow
                THEN InsertSession(meeting_id, [playlist |-> json_dumps(longer)])
                ELSE /\ youtube_sessions' =
                            ApplyUpdate(loaded, [playlist |-> json_dumps(longer)])
                     /\ UNCHANGED id_seq
             /\ resp' = Json(200, [success |-> TRUE, playlist |-> longer])
        ELSE /\ resp' = Json(200, [success |-> TRUE, playlist |-> playlist])
             /\ UNCHANGED <<id_seq, youtube_sessions>>

youtube_add_to_playlist(room_id, video_id, video_title) ==
    /\ IF MeetingsByRoom(room_id) = {}
       THEN /\ resp' = Error(404, "Meeting not found")
            /\ UNCHANGED <<id_seq, youtube_sessions>>
       ELSE \E loaded \in FirstSession(MeetingOf(room_id).id) :
                youtube_add_to_playlist_write(loaded, MeetingOf(room_id).id,
                                              video_id, video_title)
    /\ UNCHANGED <<envvars, meetings, join_requests, messages, gallery_images,
                   files, concvars>>

(* ------------------- a database statement that fails ------------------- *)

\* an except branch: db.session.rollback(); jsonify({'error': str(e)}), 500
HandledError == Error(500, "OperationalError")

\* an exception no handler catches: the errorhandler(500) page
UnhandledError == Json(500, [page |-> "offline.html"])

\* create_join_request when its commit raises
create_join_request_db_error(room_id) ==
    /\ MeetingsByRoom(room_id) # {}
    /\ MeetingOf(room_id).is_active
    /\ is_meeting_started(MeetingOf(room_id))
    /\ resp' = HandledError
    /\ UNCHANGED <<envvars, dbvars, concvars>>

\* create_meeting when its first commit raises, or (at_qr_commit) the commit
\* that stores the QR path: the first commit has then stored the meeting
create_meeting_db_error(title, date, time, at_qr_commit) ==
    /\ IF at_qr_commit
       THEN LET id == id_seq["meeting"] + 1
                room_id == RoomToken(id)
            IN  /\ TotalInserted < MaxRows
                /\ generate_meeting_qr(room_id).success
                /\ id_seq' = [id_seq EXCEPT !["meeting"] = id]
                /\ meetings' = meetings \cup
                       {[id |-> id, room_id |-> room_id, title |-> title,
                         description |-> "", date |-> date, time |-> time,
                         gallery_password |-> HARDCODED_PASSWORD,
                         is_active |-> TRUE, qr_code_path |-> None]}
       ELSE UNCHANGED <<id_seq, meetings>>
    /\ resp' = UnhandledError
    /\ UNCHANGED <<envvars, join_requests, messages, gallery_images, files,
                   youtube_sessions, concvars>>

\* send_message when its commit raises
send_message_db_error(room_id) ==
    /\ MeetingsByRoom(room_id) # {}
    /\ resp' = UnhandledError
    /\ UNCHANGED <<envvars, dbvars, concvars>>

\* upload_image when its commit raises: the file has been saved
upload_image_db_error(room_id, filename) ==
    /\ MeetingsByRoom(room_id) # {}
    /\ filename \notin {None, ""}
    /\ files' = files \cup
           {UploadPath(room_id, id_seq["gallery_image"] + 1, filename)}
    /\ resp' = UnhandledError
    /\ UNCHANGED <<envvars, id_seq, meetings, join_requests, messages,
                   gallery_images, youtube_sessions, concvars>>

\* delete_image when its commit raises: the file has been removed
delete_image_db_error(image_id, remove_ok) ==
    /\ \E image \in gallery_images :
          /\ image.id = image_id
          /\ files' = IF image.image_path \in files /\ remove_ok
                      THEN files \ {image.image_path}
                      ELSE files
    /\ resp' = UnhandledError
    /\ UNCHANGED <<envvars, id_seq, meetings, join_requests, messages,
                   gallery_images, youtube_sessions, concvars>>

\* end_meeting when its commit raises
end_meeting_db_error(room_id) ==
    /\ MeetingsByRoom(room_id) # {}
    /\ resp' = UnhandledError
    /\ UNCHANGED <<envvars, dbvars, concvars>>

(* ------------------- requests between two statements ------------------ *)

\* send_message up to the INSERT that db.session.commit() flushes: the row has
\* its AUTO_INCREMENT id and is not yet visible to other connections
send_message_flush(w, room_id, sender, text, is_image) ==
    /\ txn[w] = Idle
    /\ IF MeetingsByRoom(room_id) = {}
       THEN /\ resp' = Error(404, "Meeting not found")
            /\ UNCHANGED <<id_seq, txn>>
       ELSE LET id == id_seq["message"] + 1
            IN  /\ TotalInserted < MaxRows
                /\ id_seq' = [id_seq EXCEPT !["message"] = id]
                /\ txn' = [txn EXCEPT ![w] =
                       [op |-> "send_message",
                        row |-> new_message(id, MeetingOf(room_id).id, sender,
                                            text, is_image)]]
                /\ UNCHANGED resp
    /\ UNCHANGED <<envvars, meetings, join_requests, messages, gallery_images,
                   files, youtube_sessions, client, ops>>

\* the COMMIT of send_message: the row becomes visible
send_message_commit(w) ==
    /\ txn[w].op = "send_message"
    /\ messages' = messages_with(txn[w].row)
    /\ resp' = Json(200, [success |-> TRUE, message_id |-> txn[w].row.id])
    /\ txn' = [txn EXCEPT ![w] = Idle]
    /\ UNCHANGED <<envvars, id_seq, meetings, join_requests, gallery_images,
                   files, youtube_sessions, client, ops>>

\* the ids of a get_messages body
IdsOf(list) == [i \in 1..Len(list) |-> list[i].id]

\* the chat page: polls get_messages with since = the largest id it has received
ClientPoll ==
    /\ MeetingsByRoom(RoomToken(1)) # {}
    /\ LET result == get_messages_result(RoomToken(1), client.since)
           ids == IdsOf(result.body.items)
       IN  /\ resp' = result
           /\ client' = [since |-> IF ids = <<>> THEN client.since
                                   ELSE Max(Range(ids) \cup {client.since}),
                         received |-> client.received \o ids]
    /\ UNCHANGED <<envvars, dbvars, txn, ops>>

\* a watch-together handler up to its SELECT of the session
youtube_begin(w, op, room_id, video_id, video_title) ==
    /\ txn[w] = Idle
    /\ IF MeetingsByRoom(room_id) = {}
       THEN /\ resp' = Error(404, "Meeting not found")
            /\ UNCHANGED txn
       ELSE /\ \E loaded \in FirstSession(MeetingOf(room_id).id) :
                   txn' = [txn EXCEPT ![w] =
                       [op |-> op, meeting_id |-> MeetingOf(room_id).id,
                        loaded |-> loaded, video_id |-> video_id,
                        video_title |-> video_title]]
            /\ UNCHANGED resp
    /\ UNCHANGED <<envvars, dbvars, client, ops>>

get_youtube_session_begin(w, room_id) ==
    youtube_begin(w, "get_youtube_session", room_id, None, None)

youtube_load_video_begin(w, room_id, video_id, video_title) ==
    youtube_begin(w, "youtube_load_video", room_id, video_id, video_title)

youtube_add_to_playlist_begin(w, room_id, video_id, video_title) ==
    youtube_begin(w, "youtube_add_to_playlist", room_id, video_id, video_title)

\* the rest of the handler: its INSERT or UPDATE, and the COMMIT
get_youtube_session_finish(w) ==
    /\ txn[w].op = "get_youtube_session"
    /\ get_youtube_session_write(txn[w].loaded, txn[w].meeting_id)
    /\ txn' = [txn EXCEPT ![w] = Idle]
    /\ UNCHANGED <<envvars, meetings, join_requests, messages, gallery_images,
                   files, client, ops>>

youtube_load_video_finish(w) ==
    /\ txn[w].op = "youtube_load_video"
    /\ youtube_load_video_write(txn[w].loaded, txn[w].meeting_id,
                                txn[w].video_id, txn[w].video_title)
    /\ txn' = [txn EXCEPT ![w] = Idle]
    /\ UNCHANGED <<envvars, meetings, join_requests, messages, gallery_images,
                   files, client, ops>>

youtube_add_to_playlist_finish(w) ==
    /\ txn[w].op = "youtube_add_to_playlist"
    /\ youtube_add_to_playlist_write(txn[w].loaded, txn[w].meeting_id,
                                     txn[w].video_id, txn[w].video_title)
    /\ txn' = [txn EXCEPT ![w] = Idle]
    /\ UNCHANGED <<envvars, meetings, join_requests, messages, gallery_images,
                   files, client, ops>>

(* ----------------------- one request at a time ------------------------- *)

CreateMeeting ==
    \E title \in Titles, date \in Dates, time \in Times :
        create_meeting(title, date, time)

ApiGenerateQr == \E room_id \in RoomIds : api_generate_qr(room_id)

MeetingLinks ==
    \E room_id \in RoomIds, file_loaded \in BOOLEAN :
        meeting_links(room_id, file_loaded)

EndMeeting == \E room_id \in RoomIds : end_meeting(room_id)

CheckMeetingActive == \E room_id \in RoomIds : check_meeting_active(room_id)

CreateJoinRequest == \E room_id \in RoomIds : create_join_request(room_id)

HandleJoinRequest ==
    \E request_id \in RowIds(join_requests), action \in Actions :
        handle_join_request(request_id, action)

GetJoinRequestStatus ==
    \E room_id \in RoomIds, requester_id \in RequesterIds :
        get_join_request_status(room_id, requester_id)

CheckJoinStatus ==
    \E room_id \in RoomIds, requester_id \in RequesterIds :
        check_join_status(room_id, requester_id)

ClearRejectedRequests == \E room_id \in RoomIds : clear_rejected_requests(room_id)

ClearRejectedRequest ==
    \E room_id \in RoomIds, requester_id \in RequesterIds :
        clear_rejected_request(room_id, requester_id)

BatchAcceptRequests ==
    \E room_id \in RoomIds, request_ids \in IdLists :
        batch_accept_requests(room_id, request_ids)

BatchRejectRequests ==
    \E room_id \in RoomIds, request_ids \in IdLists :
        batch_reject_requests(room_id, request_ids)

SendMessage ==
    \E room_id \in RoomIds, sender \in Senders, text \in Texts :
        send_message(room_id, sender, text, FALSE)

GetMessages ==
    \E room_id \in RoomIds, since \in RowIds(messages) : get_messages(room_id, since)

UploadImage ==
    \E room_id \in RoomIds, filename \in FileNames \cup {None, ""} :
        upload_image(room_id, filename)

GetGalleryImages ==
    \E room_id \in RoomIds, password \in Passwords :
        get_gallery_images(room_id, password)

DeleteImage ==
    \E image_id \in RowIds(gallery_images), remove_ok \in BOOLEAN :
        delete_image(image_id, remove_ok)

GetYoutubeSession == \E room_id \in RoomIds : get_youtube_session(room_id)

YoutubeLoadVideo ==
    \E room_id \in RoomIds, video_id \in VideoIds, video_title \in VideoTitles :
        youtube_load_video(room_id, video_id, video_title)

YoutubePlay ==
    \E room_id \in RoomIds, is_playing \in BOOLEAN, current_time \in SeekTimes :
        youtube_play(room_id, is_playing, current_time)

YoutubeSeek ==
    \E room_id \in RoomIds, current_time \in SeekTimes :
        youtube_seek(room_id, current_time)

YoutubeVolume ==
    \E room_id \in RoomIds, volume \in Volumes : youtube_volume(room_id, volume)

YoutubeAddToPlaylist ==
    \E room_id \in RoomIds, video_id \in VideoIds, video_title \in VideoTitles :
        youtube_add_to_playlist(room_id, video_id, video_title)

YoutubeRemoveFromPlaylist ==
    \E room_id \in RoomIds, video_id \in VideoIds :
        youtube_remove_from_playlist(room_id, video_id)

\* one request at a time: every handler that writes, and the reads the
\* properties are about.  The routes left out (pages, listings, statistics,
\* export) only read.
Requests ==
    \/ CreateMeeting \/ ApiGenerateQr \/ MeetingLinks \/ EndMeeting
    \/ CheckMeetingActive
    \/ CreateJoinRequest \/ HandleJoinRequest \/ GetJoinRequestStatus
    \/ CheckJoinStatus \/ ClearRejectedRequests \/ ClearRejectedRequest
    \/ BatchAcceptRequests \/ BatchRejectRequests
    \/ SendMessage \/ GetMessages
    \/ UploadImage \/ GetGalleryImages \/ DeleteImage
    \/ GetYoutubeSession \/ YoutubeLoadVideo \/ YoutubePlay \/ YoutubeSeek
    \/ YoutubeVolume \/ YoutubeAddToPlaylist \/ YoutubeRemoveFromPlaylist

\* the whole API, up to MaxOps requests
Next ==
    \/ Tick
    \/ /\ ops < MaxOps
       /\ Requests
       /\ ops' = ops + 1

Spec == Init /\ [][Next]_vars

\* meetings and join requests
NextJoin ==
    \/ Tick
    \/ /\ \/ CreateMeeting \/ EndMeeting
          \/ CreateJoinRequest \/ HandleJoinRequest \/ GetJoinRequestStatus
          \/ ClearRejectedRequests \/ ClearRejectedRequest
          \/ BatchAcceptRequests \/ BatchRejectRequests
       /\ UNCHANGED ops

SpecJoin == Init /\ [][NextJoin]_vars

\* meetings and chat
NextChat ==
    \/ Tick
    \/ /\ CreateMeeting \/ SendMessage \/ GetMessages
       /\ UNCHANGED ops

SpecChat == Init /\ [][NextChat]_vars

\* meetings and the playback state of the watch-together session
NextWatch ==
    /\ \/ CreateMeeting \/ GetYoutubeSession \/ YoutubeLoadVideo
       \/ YoutubePlay \/ YoutubeSeek \/ YoutubeVolume
    /\ UNCHANGED ops

SpecWatch == Init /\ [][NextWatch]_vars

\* a meeting to watch in: its start time plays no part
CreateWatchMeeting ==
    \E title \in Titles, date \in Dates : create_meeting(title, date, "19:00")

\* every watch-together handler, one request at a time, up to MaxOps + 1
\* requests, with the clock advancing in between
NextWatchAll ==
    \/ Tick
    \/ /\ ops < MaxOps + 1
       /\ \/ CreateWatchMeeting \/ GetYoutubeSession \/ YoutubeLoadVideo
          \/ YoutubePlay \/ YoutubeSeek \/ YoutubeVolume
          \/ YoutubeAddToPlaylist \/ YoutubeRemoveFromPlaylist
       /\ ops' = ops + 1

SpecWatchAll == Init /\ [][NextWatchAll]_vars

\* start times on both sides of the first minute of the clock, and one
\* that does not parse
StartTimes == Times \cup {"18:59"}

CreateMeetingAt ==
    \E title \in Titles, date \in Dates, time \in StartTimes :
        create_meeting(title, date, time)

\* meetings and the start check of create_join_request as the clock advances
NextStart ==
    \/ Tick
    \/ /\ CreateMeetingAt \/ EndMeeting \/ CreateJoinRequest
       /\ UNCHANGED ops

SpecStart == Init /\ [][NextStart]_vars

(* --------------------- requests that run concurrently ------------------ *)

SendMessageFlush ==
    \E w \in Workers, room_id \in RoomIds, sender \in Senders, text \in Texts :
        send_message_flush(w, room_id, sender, text, FALSE)

SendMessageCommit == \E w \in Workers : send_message_commit(w)

\* chat with concurrent senders and one polling client
NextChatConc ==
    \/ Tick
    \/ /\ CreateMeeting \/ SendMessageFlush \/ SendMessageCommit \/ ClientPoll
       /\ UNCHANGED ops

SpecChatConc == Init /\ [][NextChatConc]_vars

GetYoutubeSessionBegin ==
    \E w \in Workers, room_id \in RoomIds : get_youtube_session_begin(w, room_id)

GetYoutubeSessionFinish == \E w \in Workers : get_youtube_session_finish(w)

YoutubeLoadVideoBegin ==
    \E w \in Workers, room_id \in RoomIds, video_id \in {"v1"},
       video_title \in VideoTitles :
        youtube_load_video_begin(w, room_id, video_id, video_title)

YoutubeLoadVideoFinish == \E w \in Workers : youtube_load_video_finish(w)

YoutubeAddToPlaylistBegin ==
    \E w \in Workers, room_id \in RoomIds, video_id \in {"v1"},
       video_title \in VideoTitles :
        youtube_add_to_playlist_begin(w, room_id, video_id, video_title)

YoutubeAddToPlaylistFinish == \E w \in Workers : youtube_add_to_playlist_finish(w)

\* the watch-together handlers that create the session, run concurrently
NextWatchConc ==
    /\ \/ CreateMeeting
       \/ GetYoutubeSessionBegin \/ GetYoutubeSessionFinish
       \/ YoutubeLoadVideoBegin \/ YoutubeLoadVideoFinish
       \/ YoutubeAddToPlaylistBegin \/ YoutubeAddToPlaylistFinish
    /\ UNCHANGED ops

SpecWatchConc == Init /\ [][NextWatchConc]_vars

\* the whole API while the QR generators start and stop failing
NextQr ==
    \/ Tick
    \/ /\ ops < MaxOps
       /\ Requests \/ QrEnvChange
       /\ ops' = ops + 1

SpecQr == Init /\ [][NextQr]_vars

CreateJoinRequestDbError ==
    \E room_id \in RoomIds : create_join_request_db_error(room_id)

CreateMeetingDbError ==
    \E title \in Titles, date \in Dates, time \in Times, at_qr_commit \in BOOLEAN :
        create_meeting_db_error(title, date, time, at_qr_commit)

SendMessageDbError == \E room_id \in RoomIds : send_message_db_error(room_id)

UploadImageDbError ==
    \E room_id \in RoomIds, filename \in FileNames :
        upload_image_db_error(room_id, filename)

DeleteImageDbError ==
    \E image_id \in RowIds(gallery_images), remove_ok \in BOOLEAN :
        delete_image_db_error(image_id, remove_ok)

EndMeetingDbError == \E room_id \in RoomIds : end_meeting_db_error(room_id)

\* a request whose database commit raises
DbError ==
    \/ CreateJoinRequestDbError \/ CreateMeetingDbError \/ SendMessageDbError
    \/ UploadImageDbError \/ DeleteImageDbError \/ EndMeetingDbError

\* requests that succeed and requests whose commit raises
NextDbError ==
    \/ Tick
    \/ /\ \/ CreateMeeting \/ CreateJoinRequest \/ SendMessage
          \/ UploadImage \/ DeleteImage \/ EndMeeting
          \/ DbError
       /\ UNCHANGED ops

SpecDbError == Init /\ [][NextDbError]_vars

\* meetings and the image gallery; a delete whose commit raises leaves a row
\* without its file
NextGallery ==
    \/ Tick
    \/ /\ \/ CreateMeeting \/ UploadImage \/ GetGalleryImages \/ DeleteImage
          \/ DeleteImageDbError
       /\ UNCHANGED ops

SpecGallery == Init /\ [][NextGallery]_vars

YoutubeAddToPlaylistStart ==
    \E w \in Workers, room_id \in RoomIds, video_id \in VideoIds,
       video_title \in VideoTitles :
        youtube_add_to_playlist_begin(w, room_id, video_id, video_title)

\* the playlist: concurrent adds of any video
NextPlaylistConc ==
    /\ \/ CreateMeeting \/ GetYoutubeSession
       \/ YoutubeAddToPlaylistStart \/ YoutubeAddToPlaylistFinish
    /\ UNCHANGED ops

SpecPlaylistConc == Init /\ [][NextPlaylistConc]_vars

\* the videos the playlist requests name
PlaylistVideoIds == VideoIds \cup {"v3"}

PlaylistAdd ==
    \E room_id \in RoomIds, video_id \in PlaylistVideoIds,
       video_title \in VideoTitles :
        youtube_add_to_playlist(room_id, video_id, video_title)

PlaylistRemove ==
    \E room_id \in RoomIds, video_id \in PlaylistVideoIds :
        youtube_remove_from_playlist(room_id, video_id)

\* the playlist: adds and removes served one at a time
NextPlaylist ==
    /\ CreateMeeting \/ GetYoutubeSession \/ PlaylistAdd \/ PlaylistRemove
    /\ UNCHANGED ops

SpecPlaylist == Init /\ [][NextPlaylist]_vars

(* ------------------------------- claims -------------------------------- *)

\* the room token of the meeting with this primary key
RoomOf(meeting_id) == (CHOOSE m \in meetings : m.id = meeting_id).room_id

\* the scheduled minute lies ahead / has been reached
InFuture(meeting) ==
    strptime(meeting.date, meeting.time).ok
    /\ now < strptime(meeting.date, meeting.time).minute

AtOrAfterStart(meeting) ==
    strptime(meeting.date, meeting.time).ok
    /\ now >= strptime(meeting.date, meeting.time).minute

\* a step of an operation that accepts, rejects or clears join requests
TouchesJoinRequests ==
    \/ HandleJoinRequest \/ BatchAcceptRequests \/ BatchRejectRequests
    \/ ClearRejectedRequests \/ ClearRejectedRequest

\* C1: accepting a pending join request makes it accepted; the status-check
\* endpoint called with the request's room and requester id answers
\* 'accepted' for every accepted request; and an accepted request stays as
\* it is except in a step of an accept / reject / clear operation.
C1_AcceptIsReported ==
    /\ [][\A r \in join_requests :
            (r.status = "pending" /\ handle_join_request(r.id, "accept"))
            => /\ resp' = Success
               /\ \E r2 \in join_requests' :
                      r2.id = r.id /\ r2.status = "accepted"]_vars
    /\ [][\A r \in join_requests :
            (r.status = "accepted"
             /\ get_join_request_status(RoomOf(r.meeting_id), r.requester))
            => resp' = Json(200, [status |-> "accepted", request_id |-> r.id])]_vars
    /\ [][\A r \in join_requests :
            (r.status = "accepted" /\ r \notin join_requests')
            => TouchesJoinRequests]_vars

\* an accepted request whose status check has just answered 'accepted'
C1_Witness ==
    \E r \in join_requests :
        /\ r.status = "accepted"
        /\ resp = Json(200, [status |-> "accepted", request_id |-> r.id])

\* C2 (as stated): create_join_request for an existing meeting whose scheduled
\* time is still in the future answers 400 "not started" and stores nothing.
C2_FutureIsNotStarted ==
    [][\A room_id \in RoomIds :
          (/\ MeetingsByRoom(room_id) # {}
           /\ InFuture(MeetingOf(room_id))
           /\ create_join_request(room_id))
          => /\ resp' = Error(400, "Meeting has not started yet")
             /\ join_requests' = join_requests]_vars

\* C2 (amended): create_join_request for an existing meeting whose scheduled
\* time is still in the future answers 400 and stores nothing; the error is
\* "not started" when the meeting is active and "not active" when it has
\* been ended.
C2_FutureIsRejected ==
    [][\A room_id \in RoomIds :
          (/\ MeetingsByRoom(room_id) # {}
           /\ InFuture(MeetingOf(room_id))
           /\ create_join_request(room_id))
          => /\ resp' = IF MeetingOf(room_id).is_active
                        THEN Error(400, "Meeting has not started yet")
                        ELSE Error(400, "Meeting is not active")
             /\ join_requests' = join_requests]_vars

\* a future, active meeting has just refused a join request
C2_Witness ==
    /\ resp = Error(400, "Meeting has not started yet")
    /\ \E m \in meetings : InFuture(m) /\ m.is_active
    /\ join_requests = {}

\* C3: create_join_request for an active meeting at or after its scheduled
\* time answers 201, stores exactly one new JoinRequest, of that meeting and
\* pending, and the status check for the returned requester id says pending.
C3_StartedIsPending ==
    [][\A room_id \in RoomIds :
          (/\ MeetingsByRoom(room_id) # {}
           /\ MeetingOf(room_id).is_active
           /\ AtOrAfterStart(MeetingOf(room_id))
           /\ create_join_request(room_id))
          => /\ resp'.code = 201
             /\ \E r \in join_requests' :
                   /\ r \notin join_requests
                   /\ join_requests' = join_requests \cup {r}
                   /\ r.meeting_id = MeetingOf(room_id).id
                   /\ r.status = "pending"
                   /\ r.id = resp'.body.request_id
                   /\ r.requester = resp'.body.requester_id
                   /\ join_request_status(room_id, r.requester)' =
                          Json(200, [status |-> "pending", request_id |-> r.id])
         ]_vars

\* a join request has just been created at the scheduled minute or later
C3_Witness ==
    /\ resp.code = 201
    /\ \E r \in join_requests :
          /\ r.requester = resp.body.requester_id
          /\ r.status = "pending"
          /\ AtOrAfterStart(CHOOSE m \in meetings : m.id = r.meeting_id)

C5_StatusIsOneOfThree ==
    \A r \in join_requests : r.status \in {"pending", "accepted", "rejected"}

\* an answered request has just been sent an action that is no accept / reject
C5_Witness ==
    /\ resp = Error(400, "Invalid action")
    /\ \E r \in join_requests : r.status \in {"accepted", "rejected"}

\* the ids in a list body, as a set
BodyIds(response) == {response.body.items[i].id : i \in 1..Len(response.body.items)}

\* C6: get_messages(room, since = k) returns exactly the messages of that
\* room's meeting whose id is greater than k, each once, and so no message
\* of another meeting.
C6_MessagesAfterCursor ==
    [][\A room_id \in RoomIds, since \in RowIds(messages) :
          (MeetingsByRoom(room_id) # {} /\ get_messages(room_id, since))
          => /\ resp'.code = 200
             /\ BodyIds(resp') =
                    {m.id : m \in {x \in messages :
                                      /\ RoomOf(x.meeting_id) = room_id
                                      /\ x.id > since}}
             /\ Len(resp'.body.items) = Cardinality(BodyIds(resp'))
             /\ \A i \in 1..Len(resp'.body.items) :
                    \E m \in messages : MessageJson(m) = resp'.body.items[i]
         ]_vars

\* two messages of one meeting are stored, and a fetch with since = the first
\* one's id has just returned the second alone
C6_Witness ==
    \E m1 \in messages, m2 \in messages :
        /\ m1.meeting_id = m2.meeting_id
        /\ m1.id < m2.id
        /\ resp = JsonList(<<MessageJson(m2)>>)

\* C7: the polling client (since = the largest id it has received) receives
\* every message of its room exactly once: no committed message lies at or
\* below its cursor without having been received, and none was received twice.
C7_EveryMessageOnce ==
    /\ \A m \in messages :
          (RoomOf(m.meeting_id) = RoomToken(1) /\ m.id <= client.since)
          => m.id \in Range(client.received)
    /\ Cardinality(Range(client.received)) = Len(client.received)

\* C8: a stored Message is never changed and never removed.
C8_MessagesAppendOnly ==
    [][\A m \in messages : m \in messages']_vars

\* a message is stored, its meeting has been ended since or before, and a
\* watch-together session has been created
C8_Witness ==
    /\ messages # {}
    /\ \E m \in meetings : ~m.is_active
    /\ youtube_sessions # {}

\* C9: youtube_load_video for an existing meeting leaves the meeting with one
\* session, holding the given video id, current_time = 0 and is_playing =
\* false, whatever the session held before and also when there was none.
C9_LoadResetsPlayback ==
    [][\A room_id \in RoomIds, video_id \in VideoIds, video_title \in VideoTitles :
          (/\ MeetingsByRoom(room_id) # {}
           /\ youtube_load_video(room_id, video_id, video_title))
          => /\ resp' = Success
             /\ Cardinality(SessionsOf(MeetingOf(room_id).id)') = 1
             /\ \A s \in SessionsOf(MeetingOf(room_id).id)' :
                   /\ s.video_id = video_id
                   /\ s.current_time = 0
                   /\ s.is_playing = FALSE
         ]_vars

\* a session that existed before (its volume was changed) holds a loaded
\* video at position 0, paused
C9_Witness ==
    /\ resp = Success
    /\ \E s \in youtube_sessions :
          /\ s.video_id \in VideoIds
          /\ s.volume # DefaultVolume
          /\ s.current_time = 0
          /\ ~s.is_playing

\* C10: each meeting has at most one YouTubeSession row.
C10_AtMostOneSession ==
    \A m \in meetings : Cardinality(SessionsOf(m.id)) <= 1

\* the video ids in a playlist
VideosIn(playlist) == {playlist[i].id : i \in 1..Len(playlist)}

\* the stored row that worker w's request has loaded
StoredRow(w) == {s \in youtube_sessions : s.id = txn[w].loaded.id}

\* the videos that were stored after worker w's request read the playlist
AddedSince(w) ==
    UNION {VideosIn(json_loads(s.playlist)) : s \in StoredRow(w)}
        \ (VideosIn(json_loads(txn[w].loaded.playlist)) \cup {txn[w].video_id})

\* C11: an add-to-playlist request that read the playlist before another
\* request stored a different video writes back the list it read plus its
\* own video: it answers success, and the other video is gone from the
\* stored playlist.
C11_LostUpdate ==
    [][\A w \in Workers :
          (/\ youtube_add_to_playlist_finish(w)
           /\ txn[w].loaded # NoRow
           /\ txn[w].video_id \notin VideosIn(json_loads(txn[w].loaded.playlist))
           /\ AddedSince(w) # {})
          => /\ resp'.code = 200
             /\ resp'.body.success
             /\ \A s \in youtube_sessions' :
                   s.id = txn[w].loaded.id
                   => /\ txn[w].video_id \in VideosIn(json_loads(s.playlist))
                      /\ VideosIn(json_loads(s.playlist)) \cap AddedSince(w) = {}
         ]_vars

\* one add has just answered success with the playlist it stored, and the
\* other worker's add, for a different video, read the playlist before that
\* and has yet to write
C11_Witness ==
    \E w \in Workers :
        /\ txn[w].op = "youtube_add_to_playlist"
        /\ txn[w].loaded # NoRow
        /\ txn[w].video_id \notin VideosIn(json_loads(txn[w].loaded.playlist))
        /\ AddedSince(w) # {}
        /\ \E s \in StoredRow(w) :
              resp = Json(200, [success |-> TRUE,
                                playlist |-> json_loads(s.playlist)])

\* the stored images of the meeting with this room token
ImagesOf(room_id) == {g \in gallery_images : RoomOf(g.meeting_id) = room_id}

\* C12: get_gallery_images for an existing meeting answers 401 with an error
\* and no image data when the password is not the shared one (or is
\* missing); with the shared password it answers exactly the images of that
\* meeting, each once, newest first by creation time.
C12_GalleryNeedsPassword ==
    [][\A room_id \in RoomIds, password \in Passwords :
          (MeetingsByRoom(room_id) # {} /\ get_gallery_images(room_id, password))
          => IF password # HARDCODED_PASSWORD
             THEN /\ resp'.code = 401
                  /\ DOMAIN resp'.body = {"error"}
             ELSE LET items == resp'.body.items
                  IN  /\ resp'.code = 200
                      /\ {items[i].id : i \in 1..Len(items)}
                             = {g.id : g \in ImagesOf(room_id)}
                      /\ Len(items) = Cardinality(ImagesOf(room_id))
                      /\ \A i \in 1..Len(items) :
                            \E g \in ImagesOf(room_id) :
                                /\ g.id = items[i].id
                                /\ url_for_static(g.image_path) = items[i].path
                                /\ g.created_at = items[i].created_at
                      /\ \A i \in 1..Len(items), j \in 1..Len(items) :
                            i < j => items[i].created_at >= items[j].created_at
         ]_vars

\* two images of one meeting were uploaded at different times, and the list
\* just returned has the later one first
C12_Witness ==
    /\ resp.code = 200
    /\ DOMAIN resp.body = {"items"}
    /\ Len(resp.body.items) = 2
    /\ resp.body.items[1].created_at > resp.body.items[2].created_at
    /\ \A i \in 1..2 : \E g \in gallery_images : g.id = resp.body.items[i].id

\* the columns of a Meeting that are set at creation only
CreationColumns ==
    {"id", "room_id", "title", "description", "date", "time", "gallery_password"}

\* C13: a stored Meeting is never deleted, and no step changes its room_id,
\* title, description, date, time or gallery_password: only is_active and
\* qr_code_path may differ afterwards.
C13_MeetingFrame ==
    [][\A m \in meetings :
          /\ Cardinality({n \in meetings' : n.id = m.id}) = 1
          /\ \A n \in meetings' :
                n.id = m.id => \A c \in CreationColumns : n[c] = m[c]
      ]_vars

\* a meeting has been ended, and api_generate_qr has just attached a QR path
\* to it
C13_Witness ==
    \E m \in meetings :
        /\ ~m.is_active
        /\ m.qr_code_path # None
        /\ resp = Json(200, [success |-> TRUE,
                             qr_path |-> url_for_static(m.qr_code_path)])

\* the primary keys of the stored meetings
MeetingIds == {m.id : m \in meetings}

\* C14: the meeting_id of every Message, JoinRequest, GalleryImage and
\* YouTubeSession is the id of a stored Meeting, and every row a step adds
\* to one of these tables belongs to a meeting that was stored before the
\* step: a request for a room token of no meeting adds none.
C14_ChildrenHaveMeeting ==
    /\ [](/\ \A r \in messages : r.meeting_id \in MeetingIds
          /\ \A r \in join_requests : r.meeting_id \in MeetingIds
          /\ \A r \in gallery_images : r.meeting_id \in MeetingIds
          /\ \A r \in youtube_sessions : r.meeting_id \in MeetingIds)
    /\ [][/\ \A r \in messages' \ messages : r.meeting_id \in MeetingIds
          /\ \A r \in join_requests' \ join_requests : r.meeting_id \in MeetingIds
          /\ \A r \in gallery_images' \ gallery_images : r.meeting_id \in MeetingIds
          /\ \A r \in youtube_sessions' \ youtube_sessions :
                r.meeting_id \in MeetingIds
         ]_vars

\* a message and an image are stored, and a request for a room token of no
\* meeting has just been refused
C14_Witness ==
    /\ messages # {}
    /\ gallery_images # {}
    /\ resp = Error(404, "Meeting not found")

\* C15: create_meeting stores one new, active meeting and answers its room
\* token whatever the QR generators do: with the styled generator failing
\* the plain one supplies the path, and with both failing the answer says
\* qr_generated = false and the meeting's qr_code_path stays unset.
C15_MeetingSurvivesQrFailure ==
    [][\A title \in Titles, date \in Dates, time \in Times :
          create_meeting(title, date, time)
          => /\ resp'.code = 200
             /\ Cardinality(meetings' \ meetings) = 1
             /\ meetings \subseteq meetings'
             /\ \A m \in meetings' \ meetings :
                   /\ m.room_id = resp'.body.room_id
                   /\ m.room_id \notin {n.room_id : n \in meetings}
                   /\ m.is_active
                   /\ m.title = title /\ m.date = date /\ m.time = time
                   /\ resp'.body.qr_generated = (qr_env # "none")
                   /\ qr_env = "styled"
                         => m.qr_code_path = "qrcodes/qr_" \o m.room_id \o ".png"
                   /\ qr_env = "simple"
                         => m.qr_code_path
                                = "qrcodes/qr_simple_" \o m.room_id \o ".png"
                   /\ qr_env = "none"
                         => m.qr_code_path = None /\ resp'.body.qr_path = None
         ]_vars

\* both generators fail, and create_meeting has just answered with the room
\* token of a stored, active meeting without a QR path
C15_Witness ==
    /\ qr_env = "none"
    /\ resp.code = 200
    /\ "qr_generated" \in DOMAIN resp.body
    /\ ~resp.body.qr_generated
    /\ \E m \in meetings :
          /\ m.room_id = resp.body.room_id
          /\ m.is_active
          /\ m.qr_code_path = None

\* C16: a request whose database operation fails is answered with a 4xx/5xx
\* status and a JSON body with an error field, and leaves the stored state
\* as it was.
C16_ErrorsAreUniform ==
    [][DbError
       => /\ resp'.code >= 400
          /\ "error" \in DOMAIN resp'.body
          /\ UNCHANGED dbvars
      ]_vars

\* C17: handle_join_request on a stored request, whatever its status:
\* 'accept' leaves it accepted and 'reject' leaves it rejected, with every
\* other column and every other request as before; any other action
\* answers 400 and changes no request.
C17_HandleIsUnguarded ==
    [][\A r \in join_requests, action \in Actions :
          handle_join_request(r.id, action)
          => IF action \in {"accept", "reject"}
             THEN /\ resp' = Success
                  /\ join_requests' = (join_requests \ {r}) \cup
                        {[r EXCEPT !.status = IF action = "accept"
                                              THEN "accepted" ELSE "rejected"]}
             ELSE /\ resp'.code = 400
                  /\ join_requests' = join_requests
         ]_vars

\* an accepted and a rejected request are stored, each open to the opposite
\* action, and an accept or reject has just succeeded
C17_Witness ==
    /\ \E r \in join_requests : r.status = "accepted"
    /\ \E r \in join_requests : r.status = "rejected"
    /\ resp = Success

\* the ids get_gallery_images lists for a room, given the shared password
ListedImages(room_id) ==
    LET items == get_gallery_images_result(room_id, HARDCODED_PASSWORD).body.items
    IN  {items[i].id : i \in 1..Len(items)}

\* C18: delete_image with the id of a stored image answers success and
\* removes that GalleryImage row and no other row of any table, whether the
\* backing file is there or not and whether removing it succeeds or not;
\* the image is then no longer listed by get_gallery_images.  With an id of
\* no image it answers 404 and changes nothing.
C18_DeleteRemovesOneImage ==
    [][\A image_id \in RowIds(gallery_images), remove_ok \in BOOLEAN :
          delete_image(image_id, remove_ok)
          => IF \E g \in gallery_images : g.id = image_id
             THEN /\ resp' = Success
                  /\ gallery_images' = {g \in gallery_images : g.id # image_id}
                  /\ UNCHANGED <<meetings, join_requests, messages,
                                 youtube_sessions>>
                  /\ \A m \in meetings : image_id \notin ListedImages(m.room_id)'
             ELSE /\ resp' = Error(404, "Image not found")
                  /\ UNCHANGED dbvars
         ]_vars

\* an image has been deleted while another image of the same meeting, whose
\* file is missing, stays stored
C18_Witness ==
    /\ resp = Success
    /\ id_seq["gallery_image"] > Cardinality(gallery_images)
    /\ \E g \in gallery_images : g.image_path \notin files

\* C19: a meeting whose is_active is false keeps it false in every step, and
\* every create_join_request for it answers 400 and stores no JoinRequest.
C19_EndIsFinal ==
    /\ [][\A m \in meetings :
             ~m.is_active => \A n \in meetings' : n.id = m.id => ~n.is_active
         ]_vars
    /\ [][\A m \in meetings :
             (~m.is_active /\ create_join_request(m.room_id))
             => /\ resp'.code = 400
                /\ join_requests' = join_requests
                /\ id_seq' = id_seq
         ]_vars

\* a meeting whose start time has come has been ended, and a join request
\* for it has just been refused
C19_Witness ==
    /\ \E m \in meetings : ~m.is_active /\ AtOrAfterStart(m)
    /\ resp = Error(400, "Meeting is not active")

\* the stored playlist of a session
PlaylistOf(s) == json_loads(s.playlist)

\* no two entries of the playlist have the same video id
NoRepeat(playlist) ==
    \A i \in 1..Len(playlist), j \in 1..Len(playlist) :
        playlist[i].id = playlist[j].id => i = j

PlaylistsHaveNoRepeats == \A s \in youtube_sessions : NoRepeat(PlaylistOf(s))

\* C20: no stored playlist holds two entries with the same video id.
\* youtube_add_to_playlist appends the video at the end of the session's
\* playlist when its id is absent and leaves the playlist as it is when
\* present; youtube_remove_from_playlist leaves the entries with another id,
\* in their order.
C20_PlaylistHasNoRepeats ==
    /\ []PlaylistsHaveNoRepeats
    /\ [][\A room_id \in RoomIds, video_id \in PlaylistVideoIds,
            video_title \in VideoTitles :
             (/\ MeetingsByRoom(room_id) # {}
              /\ youtube_add_to_playlist(room_id, video_id, video_title))
             => IF SessionsOf(MeetingOf(room_id).id) = {}
                THEN \E t \in youtube_sessions' \ youtube_sessions :
                        /\ t.meeting_id = MeetingOf(room_id).id
                        /\ PlaylistOf(t)
                              = <<[id |-> video_id, title |-> video_title]>>
                ELSE \A s \in SessionsOf(MeetingOf(room_id).id) :
                        \E t \in youtube_sessions' :
                           /\ t.id = s.id
                           /\ PlaylistOf(t) =
                                 IF video_id \in VideosIn(PlaylistOf(s))
                                 THEN PlaylistOf(s)
                                 ELSE Append(PlaylistOf(s),
                                             [id |-> video_id,
                                              title |-> video_title])
         ]_vars
    /\ [][\A room_id \in RoomIds, video_id \in PlaylistVideoIds :
             (/\ MeetingsByRoom(room_id) # {}
              /\ youtube_remove_from_playlist(room_id, video_id))
             => \A s \in SessionsOf(MeetingOf(room_id).id) :
                   \E t \in youtube_sessions' :
                      /\ t.id = s.id
                      /\ PlaylistOf(t) =
                            SelectSeq(PlaylistOf(s), LAMBDA v : v.id # video_id)
         ]_vars

\* a remove has just answered success, and the stored playlist holds two
\* videos in the order in which they were added
C20_Witness ==
    /\ resp = Success
    /\ \E s \in youtube_sessions :
          /\ Len(PlaylistOf(s)) = 2
          /\ PlaylistOf(s)[1].id = "v1"
          /\ PlaylistOf(s)[2].id = "v3"

\* a step of youtube_play, youtube_seek, youtube_volume or
\* youtube_remove_from_playlist for this room
AssignsTo(room_id) ==
    \/ \E is_playing \in BOOLEAN, current_time \in SeekTimes :
          youtube_play(room_id, is_playing, current_time)
    \/ \E current_time \in SeekTimes : youtube_seek(room_id, current_time)
    \/ \E volume \in Volumes : youtube_volume(room_id, volume)
    \/ \E video_id \in VideoIds : youtube_remove_from_playlist(room_id, video_id)

\* C21: play, seek, volume and remove-from-playlist for a meeting without a
\* session answer success and store nothing, so the meeting still has no
\* session; and get_youtube_session for a meeting without a session answers
\* the defaults: no video, not playing, position 0, volume 100, empty
\* playlist.
C21_AssignNeverCreates ==
    /\ [][\A m \in meetings :
             (SessionsOf(m.id) = {} /\ AssignsTo(m.room_id))
             => /\ resp' = Success
                /\ UNCHANGED dbvars
         ]_vars
    /\ [][\A m \in meetings :
             (SessionsOf(m.id) = {} /\ get_youtube_session(m.room_id))
             => resp' = Json(200, [video_id |-> None, video_title |-> None,
                                   is_playing |-> FALSE, current_time |-> 0,
                                   volume |-> 100, playlist |-> <<>>])
         ]_vars

\* a meeting is stored, no session has ever been created, and a play, seek,
\* volume or remove request has just answered success
C21_Witness ==
    /\ meetings # {}
    /\ id_seq["youtube_session"] = 0
    /\ resp = Success

WatchOps == {"load", "play", "seek", "volume", "add", "remove"}

\* a step of the watch-together mutation `op` for this room
WatchStep(op, room_id) ==
    CASE op = "load" ->
            \E video_id \in VideoIds, video_title \in VideoTitles :
                youtube_load_video(room_id, video_id, video_title)
      [] op = "play" ->
            \E is_playing \in BOOLEAN, current_time \in SeekTimes :
                youtube_play(room_id, is_playing, current_time)
      [] op = "seek" ->
            \E current_time \in SeekTimes : youtube_seek(room_id, current_time)
      [] op = "volume" ->
            \E volume \in Volumes : youtube_volume(room_id, volume)
      [] op = "add" ->
            \E video_id \in VideoIds, video_title \in VideoTitles :
                youtube_add_to_playlist(room_id, video_id, video_title)
      [] op = "remove" ->
            \E video_id \in VideoIds :
                youtube_remove_from_playlist(room_id, video_id)

\* the session columns each mutation assigns
OwnFields(op) ==
    CASE op = "load" -> {"video_id", "video_title", "is_playing", "current_time"}
      [] op = "play" -> {"is_playing", "current_time"}
      [] op = "seek" -> {"current_time"}
      [] op = "volume" -> {"volume"}
      [] op = "add" -> {"playlist"}
      [] op = "remove" -> {"playlist"}

OtherSessions(meeting_id) ==
    {s \in youtube_sessions : s.meeting_id # meeting_id}

\* the step leaves every table but YouTubeSession and every session of
\* another meeting as it was; a session of meeting m keeps every column
\* outside `own`, and a session the step creates for m has the column
\* defaults outside `own`
ChangesOnly(m, own) ==
    /\ UNCHANGED <<meetings, join_requests, messages, gallery_images, files>>
    /\ OtherSessions(m.id)' = OtherSessions(m.id)
    /\ IF SessionsOf(m.id) = {}
       THEN /\ Cardinality(SessionsOf(m.id)') <= 1
            /\ \A t \in SessionsOf(m.id)' :
                  \A c \in DOMAIN t \ own :
                      t[c] = new_youtube_session(t.id, m.id)[c]
       ELSE /\ {t.id : t \in SessionsOf(m.id)'} = {s.id : s \in SessionsOf(m.id)}
            /\ \A s \in SessionsOf(m.id), t \in SessionsOf(m.id)' :
                  t.id = s.id => \A c \in DOMAIN s \ own : t[c] = s[c]

\* updated_at of a session of meeting m becomes the time of the request
\* when a column in `own` changes, and is kept otherwise
Stamped(m, own) ==
    \A s \in SessionsOf(m.id), t \in SessionsOf(m.id)' :
        t.id = s.id =>
            t.updated_at = IF \E c \in own : t[c] # s[c]
                           THEN now ELSE s.updated_at

\* C22 as stated: every watch-together mutation changes only its own columns
\* of the session of the named meeting (seek current_time; volume volume;
\* play is_playing and current_time; load video_id, video_title, is_playing
\* and current_time; add and remove playlist) and no session of another
\* meeting.
C22_OnlyOwnFields ==
    [][\A m \in meetings, op \in WatchOps :
          WatchStep(op, m.room_id) => ChangesOnly(m, OwnFields(op))
      ]_vars

\* C22, amended: every watch-together mutation changes only its own columns
\* of the session of the named meeting and, when one of them changes,
\* updated_at, which becomes the time of the request; sessions of other
\* meetings and the other tables are never changed.
C22_OwnFieldsAndUpdatedAt ==
    [][\/ UNCHANGED dbvars
       \/ \A m \in meetings, op \in WatchOps :
             WatchStep(op, m.room_id)
             => /\ ChangesOnly(m, OwnFields(op) \cup {"updated_at"})
                /\ Stamped(m, OwnFields(op))
      ]_vars

\* two meetings, one of them with a session that has a video loaded and not
\* playing, a volume other than the default, a playlist entry and an
\* updated_at later than the start, after a mutation answered success
C22_Witness ==
    /\ Cardinality(meetings) = 2
    /\ resp = Success
    /\ \E s \in youtube_sessions :
          /\ s.video_id # None
          /\ ~s.is_playing
          /\ s.volume # DefaultVolume
          /\ json_loads(s.playlist) # <<>>
          /\ s.updated_at > 0

\* the id is one of the supplied list
Listed(request_ids, id) == \E i \in 1..Len(request_ids) : request_ids[i] = id

\* after the step the listed join requests of meeting m have this status and
\* every other join request, and every other table, is as it was
SetsStatusOfListed(m, request_ids, status) ==
    /\ Cardinality(join_requests') = Cardinality(join_requests)
    /\ \A r \in join_requests :
          IF Listed(request_ids, r.id) /\ r.meeting_id = m.id
          THEN [r EXCEPT !.status = status] \in join_requests'
          ELSE r \in join_requests'
    /\ UNCHANGED <<id_seq, meetings, messages, gallery_images, files,
                   youtube_sessions>>

\* what a batch call for a stored meeting is answered with: 400, or 200 and
\* a count
BatchAnswer(r) == r.code = 400 \/ (r.code = 200 /\ "key" \in DOMAIN r.body)

\* C23: batch_accept_requests (batch_reject_requests) for a stored meeting
\* sets to accepted (rejected) exactly the join requests whose id is in the
\* list and that belong to that meeting; listed requests of other meetings
\* and requests not listed stay as they were; with an empty list the answer
\* is 400 and nothing changes.
C23_BatchFrame ==
    [][BatchAnswer(resp') =>
       \A m \in meetings, request_ids \in IdLists :
          /\ batch_accept_requests(m.room_id, request_ids)
             => IF request_ids = <<>>
                THEN resp'.code = 400 /\ UNCHANGED dbvars
                ELSE SetsStatusOfListed(m, request_ids, "accepted")
          /\ batch_reject_requests(m.room_id, request_ids)
             => IF request_ids = <<>>
                THEN resp'.code = 400 /\ UNCHANGED dbvars
                ELSE SetsStatusOfListed(m, request_ids, "rejected")
      ]_vars

\* a batch accept of one id has answered, and of two join requests of one
\* meeting one is accepted and the other still pending
C23_Witness ==
    /\ resp.code = 200
    /\ "key" \in DOMAIN resp.body
    /\ resp.body.key = "accepted_count"
    /\ resp.body.count = 1
    /\ \E r, q \in join_requests :
          /\ r.meeting_id = q.meeting_id
          /\ r.status = "accepted"
          /\ q.status = "pending"

\* a batch reject has answered, and a join request of one of two meetings is
\* still pending
C23_WitnessOtherMeeting ==
    /\ resp.code = 200
    /\ "key" \in DOMAIN resp.body
    /\ resp.body.key = "rejected_count"
    /\ Cardinality(meetings) = 2
    /\ \E r \in join_requests : r.status = "pending"

\* the join requests a batch call for meeting m sets the status of
SetByBatch(m, request_ids) ==
    {r \in join_requests : Listed(request_ids, r.id) /\ r.meeting_id = m.id}

\* C24: the count a batch_accept_requests or batch_reject_requests call
\* returns is the number of join requests whose status the call set, for
\* every id list, with ids of other meetings, unknown ids and repeated ids.
C24_CountIsRowsSet ==
    [][BatchAnswer(resp') =>
       \A m \in meetings, request_ids \in IdLists \ {<<>>} :
          (\/ batch_accept_requests(m.room_id, request_ids)
           \/ batch_reject_requests(m.room_id, request_ids))
          => resp'.body.count = Cardinality(SetByBatch(m, request_ids))
      ]_vars

\* the date and time of the meeting parse as "%Y-%m-%d %H:%M"
Parses(meeting) == strptime(meeting.date, meeting.time).ok

RequestsOf(meeting) == {r \in join_requests : r.meeting_id = meeting.id}

\* C25: create_meeting stores whatever date and time it is sent; a meeting
\* whose date and time do not parse never has a join request, and every
\* create_join_request for it is answered 400 and stores nothing, at every
\* time; a meeting whose date and time parse and that has started stays
\* started, so a create_join_request that passed the start check is never
\* followed by one that fails it.
C25_UnparsedNeverStarts ==
    /\ [][\A title \in Titles, date \in Dates, time \in StartTimes :
             create_meeting(title, date, time)
             => \E m \in meetings' \ meetings : m.date = date /\ m.time = time
         ]_vars
    /\ [](\A m \in meetings : ~Parses(m) => RequestsOf(m) = {})
    /\ [][\A m \in meetings :
             (~Parses(m) /\ create_join_request(m.room_id))
             => resp'.code = 400 /\ UNCHANGED dbvars
         ]_vars
    /\ [][\A m \in meetings :
             (Parses(m) /\ is_meeting_started(m)) => is_meeting_started(m)'
         ]_vars

\* at a time when every meeting with a parseable start has started, and one
\* that started before the last tick has a join request, an active meeting
\* whose time does not parse has just refused a join request as not started
C25_Witness ==
    /\ now >= 1
    /\ resp = Error(400, "Meeting has not started yet")
    /\ \E m \in meetings : ~Parses(m) /\ m.is_active
    /\ \E m \in meetings :
          /\ Parses(m)
          /\ strptime(m.date, m.time).minute < now
          /\ RequestsOf(m) # {}

====
